---------------------------- MODULE Spec2Model ----------------------------
(***************************************************************************)
(* A model of assignment1/solution.py: the FPR/TPR/AUC metric functions,   *)
(* the train/validation loop drivers and the BassetDataset constructor.    *)
(*                                                                         *)
(* Numbers.  Python divides integers into floats; the model keeps every    *)
(* such quotient as an exact fraction [n, d] in lowest terms, so equality  *)
(* of two results is equality of their values.  Scores and thresholds are  *)
(* integer ticks, Unit ticks making 1.0.                                   *)
(***************************************************************************)
EXTENDS Integers, Sequences, FiniteSets, TLC

(***************************************************************************)
(* Bounds of the model.                                                    *)
(***************************************************************************)
\* longest label/score array handed to a metric function
MaxLen == 3
\* most batches a data loader yields in one pass
MaxBatches == 2

(***************************************************************************)
(* Program constants.                                                      *)
(***************************************************************************)
\* np.linspace(0, 1, num=20, endpoint=False)
NumThresholds == 20
\* 1.0 in ticks: five ticks to a threshold step of 0.05
Unit == 5 * NumThresholds

(***************************************************************************)
(* Exact fractions standing for Python floats.                             *)
(***************************************************************************)
Abs(x) == IF x < 0 THEN -x ELSE x

RECURSIVE GCD(_, _)
GCD(a, b) == IF b = 0 THEN a ELSE GCD(b, a % b)

\* the value n / d, d # 0, in lowest terms with a positive denominator
Frac(n, d) ==
    LET g == GCD(Abs(n), Abs(d))
        s == IF d < 0 THEN -1 ELSE 1
    IN  [n |-> (s * n) \div g, d |-> (s * d) \div g]

\* the float 0.
Zero == [n |-> 0, d |-> 1]

FromInt(i) == [n |-> i, d |-> 1]
FAdd(x, y) == Frac(x.n * y.d + y.n * x.d, x.d * y.d)
FSub(x, y) == Frac(x.n * y.d - y.n * x.d, x.d * y.d)
FMul(x, y) == Frac(x.n * y.n, x.d * y.d)
\* x / i for an integer i # 0
FDivInt(x, i) == Frac(x.n, x.d * i)
\* np.abs
FAbs(x) == [n |-> Abs(x.n), d |-> x.d]

(***************************************************************************)
(* numpy helpers.                                                          *)
(***************************************************************************)
\* np.sum(np.logical_and(a == va, b == vb)): the loop numpy runs over the
\* positions of the two arrays
RECURSIVE CountBoth(_, _, _, _, _)
CountBoth(a, va, b, vb, i) ==
    IF i = 0 THEN 0
    ELSE CountBoth(a, va, b, vb, i - 1)
         + (IF a[i] = va /\ b[i] = vb THEN 1 ELSE 0)

\* Variant of linspace: the points start one step late, step .. stop
linspace_shifted(start, stop, num) ==
    [i \in 1..num |-> start + i * ((stop - start) \div num)]

\* np.linspace(start, stop, num, endpoint=False): num points start + i*step,
\* step = (stop - start) / num, i = 0 .. num-1 (sequence index i+1)
linspace(start, stop, num) ==
    [i \in 1..num |-> start + (i - 1) * ((stop - start) \div num)]

\* Variant of threshold: the comparison is not strict, y_model >= k
threshold_ge(y_model, k) ==
    [i \in 1..Len(y_model) |-> IF y_model[i] >= k THEN 1 ELSE 0]

\* (y_model > k).astype(int)
threshold(y_model, k) ==
    [i \in 1..Len(y_model) |-> IF y_model[i] > k THEN 1 ELSE 0]

\* np.trapz(y, x): d = np.diff(x); sum(d * (y[1:] + y[:-1]) / 2.0).
\* trapz_sum adds the terms lo .. hi the way np.sum does, by halves.
RECURSIVE trapz_sum(_, _, _, _)
trapz_sum(y, x, lo, hi) ==
    IF lo > hi THEN Zero
    ELSE IF lo = hi
         THEN FDivInt(FMul(FSub(x[lo + 1], x[lo]), FAdd(y[lo + 1], y[lo])), 2)
         ELSE LET mid == (lo + hi) \div 2
              IN  FAdd(trapz_sum(y, x, lo, mid), trapz_sum(y, x, mid + 1, hi))

trapz(y, x) == trapz_sum(y, x, 1, Len(x) - 1)

\* Variant of compute_fpr_tpr: the rates are taken over the predicted classes
\* (tp + fp and tn + fn) instead of the true ones
compute_fpr_tpr_by_prediction(yt, yp) ==
    LET len == Len(yt)
        tp == CountBoth(yp, 1, yt, 1, len)
        tn == CountBoth(yp, 0, yt, 0, len)
        fp == CountBoth(yp, 1, yt, 0, len)
        fn_ == CountBoth(yp, 0, yt, 1, len)
        positives == tp + fp
        negatives == tn + fn_
    IN  [tpr |-> IF positives > 0 THEN Frac(tp, positives) ELSE Zero,
         fpr |-> IF negatives > 0 THEN Frac(fp, negatives) ELSE Zero]

(***************************************************************************)
(* compute_fpr_tpr(y_true, y_pred)                                         *)
(***************************************************************************)
compute_fpr_tpr(yt, yp) ==
    LET len == Len(yt)
        tp == CountBoth(yp, 1, yt, 1, len)
        tn == CountBoth(yp, 0, yt, 0, len)
        fp == CountBoth(yp, 1, yt, 0, len)
        fn_ == CountBoth(yp, 0, yt, 1, len)
        positives == tp + fn_
        negatives == tn + fp
    IN  [tpr |-> IF positives > 0 THEN Frac(tp, positives) ELSE Zero,
         fpr |-> IF negatives > 0 THEN Frac(fp, negatives) ELSE Zero]

(***************************************************************************)
(* The threshold sweep shared by compute_auc and the two simulated models: *)
(* for k in k_list: threshold the scores, append fpr and tpr.              *)
(***************************************************************************)
k_list == linspace(0, Unit, NumThresholds)

sweep(labels, samples) ==
    LET results(k) == compute_fpr_tpr(labels, threshold(samples, k))
    IN  [fpr_list |-> [i \in 1..Len(k_list) |-> results(k_list[i]).fpr],
         tpr_list |-> [i \in 1..Len(k_list) |-> results(k_list[i]).tpr]]

\* Variant of compute_auc: np.abs is left out
compute_auc_signed(yt, ym) ==
    LET roc == sweep(yt, ym)
    IN  [auc |-> trapz(roc.tpr_list, roc.fpr_list)]

\* Variant of compute_auc: the curve is closed with the end points (1,1) and
\* (0,0) before it is integrated
compute_auc_with_end_points(yt, ym) ==
    LET roc == sweep(yt, ym)
        tpr == <<FromInt(1)>> \o roc.tpr_list \o <<Zero>>
        fpr == <<FromInt(1)>> \o roc.fpr_list \o <<Zero>>
    IN  [auc |-> FAbs(trapz(tpr, fpr))]

\* compute_auc(y_true, y_model)
compute_auc(yt, ym) ==
    LET roc == sweep(yt, ym)
    IN  [auc |-> FAbs(trapz(roc.tpr_list, roc.fpr_list))]


\* compute_fpr_tpr_dumb_model(): labels and samples are the arrays the two
\* np.random calls drew
compute_fpr_tpr_dumb_model(labels, samples) == sweep(labels, samples)

\* compute_fpr_tpr_smart_model(): labels and samples are the arrays the
\* np.random calls drew
compute_fpr_tpr_smart_model(labels, samples) == sweep(labels, samples)

(***************************************************************************)
(* State.                                                                  *)
(***************************************************************************)
VARIABLES
    pc,             \* position of the running call: "idle", a statement, "returned", "raised"
    fn,             \* the function being run
    y_true,         \* metric functions: first array argument (labels)
    y_model,        \* metric functions: second array argument (y_pred, y_model, samples)
    result,         \* metric functions: the returned dict
    err,            \* the exception a call raised, "none" otherwise
    training,       \* model.training
    grad,           \* batches whose gradients sit in the parameters' .grad (0: left by the caller)
    grad_at_call,   \* grad when the loop was called
    opt_log,        \* the gradients each optimizer.step() of this call applied
    trace,          \* the statements run for the current batch
    batch,          \* the batch the loader yielded: [n, target]
    pred,           \* model(x): the logits, flattened
    loss,           \* criterion(pred, y)
    total_score,    \* output['total_score']
    total_loss,     \* output['total_loss']
    counter,
    batch_counter,
    hist,           \* per finished batch: [auc, loss, n]
    ret,            \* the pair a loop returned
    self_split,     \* BassetDataset: self.split
    attrs,          \* BassetDataset: the attributes set on self so far
    file_opened     \* BassetDataset: h5py.File was called and gave a file

metric_vars == <<y_true, y_model, result>>
loop_vars == <<training, grad, grad_at_call, opt_log, trace, batch, pred, loss,
               total_score, total_loss, counter, batch_counter, hist, ret>>
ds_vars == <<self_split, attrs, file_opened>>
vars == <<pc, fn, err, metric_vars, loop_vars, ds_vars>>

NoBatch == [n |-> 0, target |-> <<>>]

Init ==
    /\ pc = "idle"
    /\ fn = "none"
    /\ y_true = <<>>
    /\ y_model = <<>>
    /\ result = [none |-> TRUE]
    /\ err = "none"
    /\ training = TRUE
    /\ grad = {}
    /\ grad_at_call = {}
    /\ opt_log = <<>>
    /\ trace = <<>>
    /\ batch = NoBatch
    /\ pred = <<>>
    /\ loss = 0
    /\ total_score = Zero
    /\ total_loss = 0
    /\ counter = 0
    /\ batch_counter = 0
    /\ hist = <<>>
    /\ ret = <<>>
    /\ self_split = "unset"
    /\ attrs = {}
    /\ file_opened = FALSE

(***************************************************************************)
(* Inputs of the metric functions.                                         *)
(***************************************************************************)
\* all sequences over S of length 0 .. n
SeqsUpTo(S, n) == UNION {[1..m -> S] : m \in 0..n}

Labels == {0, 1}

\* scores in [0, 1] handed to compute_auc, in ticks: 0.0, a value on a
\* threshold (0.05), 0.5 and 1.0
Scores == {0, 5, 50, Unit}

\* np.random.uniform(size=...) draws from [0, 1)
DumbSamples == {0, 40, 50, 97}

\* np.random.uniform(low=0.4, high=1.0) and uniform(low=0.0, high=0.6)
SmartSamples(label) == IF label = 1 THEN {40, 50, 97} ELSE {0, 40, 50}

(***************************************************************************)
(* The metric functions: each call is one step from "idle".                *)
(***************************************************************************)
CallComputeFprTpr ==
    /\ pc = "idle"
    /\ \E yt \in SeqsUpTo(Labels, MaxLen) :
         \E yp \in [1..Len(yt) -> {0, 1}] :
            /\ y_true' = yt
            /\ y_model' = yp
            /\ result' = compute_fpr_tpr(yt, yp)
    /\ fn' = "compute_fpr_tpr"
    /\ pc' = "returned"
    /\ UNCHANGED <<err, loop_vars, ds_vars>>

CallComputeAuc ==
    /\ pc = "idle"
    /\ \E yt \in SeqsUpTo(Labels, MaxLen) :
         \E ym \in [1..Len(yt) -> Scores] :
            /\ y_true' = yt
            /\ y_model' = ym
            /\ result' = compute_auc(yt, ym)
    /\ fn' = "compute_auc"
    /\ pc' = "returned"
    /\ UNCHANGED <<err, loop_vars, ds_vars>>

\* the arrays have 1000 entries in the program, MaxLen here
CallDumbModel ==
    /\ pc = "idle"
    /\ \E labels \in [1..MaxLen -> Labels] :
         \E samples \in [1..MaxLen -> DumbSamples] :
            /\ y_true' = labels
            /\ y_model' = samples
            /\ result' = compute_fpr_tpr_dumb_model(labels, samples)
    /\ fn' = "compute_fpr_tpr_dumb_model"
    /\ pc' = "returned"
    /\ UNCHANGED <<err, loop_vars, ds_vars>>

CallSmartModel ==
    /\ pc = "idle"
    /\ \E labels \in [1..MaxLen -> Labels] :
         \E samples \in [1..MaxLen -> SmartSamples(0) \cup SmartSamples(1)] :
            /\ \A i \in 1..MaxLen : samples[i] \in SmartSamples(labels[i])
            /\ y_true' = labels
            /\ y_model' = samples
            /\ result' = compute_fpr_tpr_smart_model(labels, samples)
    /\ fn' = "compute_fpr_tpr_smart_model"
    /\ pc' = "returned"
    /\ UNCHANGED <<err, loop_vars, ds_vars>>

(***************************************************************************)
(* Inputs of the loops: what the data loader, the model and the criterion  *)
(* (all three are arguments) hand back.                                    *)
(***************************************************************************)
\* the shapes <<rows, labels per row>> of the target tensors the loader yields
BatchShapes == {<<1, 1>>, <<1, 2>>, <<2, 1>>}

\* a batch: n rows, and its target tensor flattened by view(-1)
BatchSet ==
    UNION {{[n |-> sh[1], target |-> t] : t \in [1..(sh[1] * sh[2]) -> Labels]} :
            sh \in BatchShapes}

\* logits the model may produce for one element
Logits == {-20, 20}

\* criterion(pred, y): a scalar, in some unit of loss
LossValues == {1, 2}

\* torch.sigmoid on one logit, in ticks: sigmoid(0) = 0.5; sigmoid(20) is
\* within 3e-9 of 1.0; sigmoid(-20) is about 2e-9, above 0.0 and below 0.05
sigmoid(x) ==
    CASE x = 0 -> Unit \div 2
      [] x >= 20 -> Unit
      [] x <= -20 -> 1

\* torch.sigmoid(pred).view(-1)
sigmoid_all(p) == [i \in 1..Len(p) |-> sigmoid(p[i])]

(***************************************************************************)
(* train_loop(model, train_dataloader, device, optimizer, criterion)       *)
(***************************************************************************)
\* output = {...}; model.train(); counter = 0; batch_counter = 0.  The model
\* and the optimizer arrive in any mode and with or without stale gradients.
TrainCall ==
    /\ pc = "idle"
    /\ fn' = "train_loop"
    /\ \E stale \in SUBSET {0} :
         /\ grad' = stale
         /\ grad_at_call' = stale
    /\ training' = TRUE
    /\ total_score' = Zero
    /\ total_loss' = 0
    /\ counter' = 0
    /\ batch_counter' = 0
    /\ pc' = "for"
    /\ UNCHANGED <<err, metric_vars, ds_vars, opt_log, trace, batch, pred, loss,
                   hist, ret>>

\* for batch in train_dataloader: the loader yields one more batch
TrainFetch ==
    /\ fn = "train_loop" /\ pc = "for"
    /\ batch_counter < MaxBatches
    /\ \E b \in BatchSet : batch' = b
    /\ trace' = <<>>
    /\ pc' = "zero_grad"
    /\ UNCHANGED <<fn, err, metric_vars, ds_vars, training, grad, grad_at_call,
                   opt_log, pred, loss, total_score, total_loss, counter,
                   batch_counter, hist, ret>>

\* Variant of TrainZeroGrad: the gradients are not cleared
TrainZeroGrad_missing ==
    /\ fn = "train_loop" /\ pc = "zero_grad"
    /\ grad' = grad
    /\ trace' = Append(trace, "zero_grad")
    /\ pc' = "forward"
    /\ UNCHANGED <<fn, err, metric_vars, ds_vars, training, grad_at_call, opt_log,
                   batch, pred, loss, total_score, total_loss, counter,
                   batch_counter, hist, ret>>

\* optimizer.zero_grad()
TrainZeroGrad ==
    /\ fn = "train_loop" /\ pc = "zero_grad"
    /\ grad' = {}
    /\ trace' = Append(trace, "zero_grad")
    /\ pc' = "forward"
    /\ UNCHANGED <<fn, err, metric_vars, ds_vars, training, grad_at_call, opt_log,
                   batch, pred, loss, total_score, total_loss, counter,
                   batch_counter, hist, ret>>

\* x = batch['sequence'].to(device); pred = model(x)
TrainForward ==
    /\ fn = "train_loop" /\ pc = "forward"
    /\ \E p \in [1..Len(batch.target) -> Logits] : pred' = p
    /\ trace' = Append(trace, "forward")
    /\ pc' = "loss"
    /\ UNCHANGED <<fn, err, metric_vars, ds_vars, training, grad, grad_at_call,
                   opt_log, batch, loss, total_score, total_loss, counter,
                   batch_counter, hist, ret>>

\* y = batch['target'].to(device).type_as(pred); loss = criterion(pred, y)
TrainLoss ==
    /\ fn = "train_loop" /\ pc = "loss"
    /\ \E l \in LossValues : loss' = l
    /\ trace' = Append(trace, "loss")
    /\ pc' = "backward"
    /\ UNCHANGED <<fn, err, metric_vars, ds_vars, training, grad, grad_at_call,
                   opt_log, batch, pred, total_score, total_loss, counter,
                   batch_counter, hist, ret>>

\* loss.backward(): this batch's gradients are added to .grad
TrainBackward ==
    /\ fn = "train_loop" /\ pc = "backward"
    /\ grad' = grad \cup {batch_counter + 1}
    /\ trace' = Append(trace, "backward")
    /\ pc' = "step"
    /\ UNCHANGED <<fn, err, metric_vars, ds_vars, training, grad_at_call, opt_log,
                   batch, pred, loss, total_score, total_loss, counter,
                   batch_counter, hist, ret>>

\* optimizer.step(): the parameters move along what .grad holds
TrainStep ==
    /\ fn = "train_loop" /\ pc = "step"
    /\ opt_log' = Append(opt_log, grad)
    /\ trace' = Append(trace, "step")
    /\ pc' = "score"
    /\ UNCHANGED <<fn, err, metric_vars, ds_vars, training, grad, grad_at_call,
                   batch, pred, loss, total_score, total_loss, counter,
                   batch_counter, hist, ret>>

\* Variant of accumulate: the loss value is summed without the batch size
accumulate_unweighted ==
    LET y_pred == sigmoid_all(pred)
        auc == compute_auc(batch.target, y_pred).auc
        n == batch.n
        batch_loss == loss
    IN  /\ total_score' = FAdd(total_score, auc)
        /\ total_loss' = total_loss + batch_loss
        /\ counter' = counter + n
        /\ batch_counter' = batch_counter + 1
        /\ hist' = Append(hist, [auc |-> auc, loss |-> loss, n |-> n])

\* the rest of the loop body: sigmoid, compute_auc, the two sums, the counters
accumulate ==
    LET y_pred == sigmoid_all(pred)
        auc == compute_auc(batch.target, y_pred).auc
        n == batch.n
        batch_loss == loss * n
    IN  /\ total_score' = FAdd(total_score, auc)
        /\ total_loss' = total_loss + batch_loss
        /\ counter' = counter + n
        /\ batch_counter' = batch_counter + 1
        /\ hist' = Append(hist, [auc |-> auc, loss |-> loss, n |-> n])

\* batch, x, pred, y and loss are assigned afresh before any later read, so
\* the values they keep after the loop body are not part of the state
dead_locals ==
    /\ batch' = NoBatch
    /\ pred' = <<>>
    /\ loss' = 0

TrainAccumulate ==
    /\ fn = "train_loop" /\ pc = "score"
    /\ accumulate
    /\ trace' = Append(trace, "accumulate")
    /\ pc' = "for"
    /\ dead_locals
    /\ UNCHANGED <<fn, err, metric_vars, ds_vars, training, grad, grad_at_call,
                   opt_log, ret>>

\* Variant of finish: the score is divided by one less than the batch counter
finish_off_by_one ==
    IF batch_counter - 1 = 0
    THEN /\ err' = "ZeroDivisionError"
         /\ pc' = "raised"
         /\ UNCHANGED <<total_score, ret>>
    ELSE /\ total_score' = FDivInt(total_score, batch_counter - 1)
         /\ ret' = <<total_score', total_loss>>
         /\ pc' = "returned"
         /\ err' = err

\* the loader is exhausted: output['total_score'] / batch_counter, return.
\* Python raises ZeroDivisionError for a float divided by the int 0.
finish ==
    IF batch_counter = 0
    THEN /\ err' = "ZeroDivisionError"
         /\ pc' = "raised"
         /\ UNCHANGED <<total_score, ret>>
    ELSE /\ total_score' = FDivInt(total_score, batch_counter)
         /\ ret' = <<total_score', total_loss>>
         /\ pc' = "returned"
         /\ err' = err

TrainExit ==
    /\ fn = "train_loop" /\ pc = "for"
    /\ finish
    /\ UNCHANGED <<fn, metric_vars, ds_vars, training, grad, grad_at_call, opt_log,
                   trace, batch, pred, loss, total_loss, counter, batch_counter,
                   hist>>

(***************************************************************************)
(* valid_loop(model, valid_dataloader, device, optimizer, criterion)       *)
(***************************************************************************)
\* output = {...}; model.eval(); counter = 0; batch_counter = 0
ValidCall ==
    /\ pc = "idle"
    /\ fn' = "valid_loop"
    /\ \E stale \in SUBSET {0} :
         /\ grad' = stale
         /\ grad_at_call' = stale
    /\ training' = FALSE
    /\ total_score' = Zero
    /\ total_loss' = 0
    /\ counter' = 0
    /\ batch_counter' = 0
    /\ pc' = "for"
    /\ UNCHANGED <<err, metric_vars, ds_vars, opt_log, trace, batch, pred, loss,
                   hist, ret>>

\* for batch in valid_dataloader
ValidFetch ==
    /\ fn = "valid_loop" /\ pc = "for"
    /\ batch_counter < MaxBatches
    /\ \E b \in BatchSet : batch' = b
    /\ trace' = <<>>
    /\ pc' = "forward"
    /\ UNCHANGED <<fn, err, metric_vars, ds_vars, training, grad, grad_at_call,
                   opt_log, pred, loss, total_score, total_loss, counter,
                   batch_counter, hist, ret>>

\* x = batch['sequence'].to(device); pred = model(x)
ValidForward ==
    /\ fn = "valid_loop" /\ pc = "forward"
    /\ \E p \in [1..Len(batch.target) -> Logits] : pred' = p
    /\ trace' = Append(trace, "forward")
    /\ pc' = "loss"
    /\ UNCHANGED <<fn, err, metric_vars, ds_vars, training, grad, grad_at_call,
                   opt_log, batch, loss, total_score, total_loss, counter,
                   batch_counter, hist, ret>>

\* loss = criterion(pred, y).detach()
ValidLoss ==
    /\ fn = "valid_loop" /\ pc = "loss"
    /\ \E l \in LossValues : loss' = l
    /\ trace' = Append(trace, "loss")
    /\ pc' = "score"
    /\ UNCHANGED <<fn, err, metric_vars, ds_vars, training, grad, grad_at_call,
                   opt_log, batch, pred, total_score, total_loss, counter,
                   batch_counter, hist, ret>>

ValidAccumulate ==
    /\ fn = "valid_loop" /\ pc = "score"
    /\ accumulate
    /\ trace' = Append(trace, "accumulate")
    /\ pc' = "for"
    /\ dead_locals
    /\ UNCHANGED <<fn, err, metric_vars, ds_vars, training, grad, grad_at_call,
                   opt_log, ret>>

ValidExit ==
    /\ fn = "valid_loop" /\ pc = "for"
    /\ finish
    /\ UNCHANGED <<fn, metric_vars, ds_vars, training, grad, grad_at_call, opt_log,
                   trace, batch, pred, loss, total_loss, counter, batch_counter,
                   hist>>

(***************************************************************************)
(* BassetDataset.__init__(path, f5name, split, transform)                  *)
(***************************************************************************)
\* Variant of split_dict: the validation split is keyed 'val'
split_dict_val == {"train", "test", "val"}

\* the keys of split_dict
split_dict == {"train", "test", "valid"}

\* split names a caller may pass
SplitNames == split_dict \cup {"val", "Train", "all"}

\* self.split = split; split_dict = {...}
DatasetCall ==
    /\ pc = "idle"
    /\ fn' = "BassetDataset"
    /\ \E split \in SplitNames : self_split' = split
    /\ attrs' = {"split"}
    /\ pc' = "assert"
    /\ UNCHANGED <<err, metric_vars, loop_vars, file_opened>>

\* assert self.split in split_dict, "..."
DatasetAssert ==
    /\ fn = "BassetDataset" /\ pc = "assert"
    /\ IF self_split \in split_dict
       THEN pc' = "open" /\ err' = err
       ELSE pc' = "raised" /\ err' = "AssertionError"
    /\ UNCHANGED <<fn, metric_vars, loop_vars, ds_vars>>

\* self.dataset = h5py.File(os.path.join(path, f5name.format(self.split)), 'r'):
\* the file is there, or h5py raises
DatasetOpen ==
    /\ fn = "BassetDataset" /\ pc = "open"
    /\ \E exists \in BOOLEAN :
         IF exists
         THEN /\ file_opened' = TRUE
              /\ attrs' = attrs \cup {"dataset"}
              /\ pc' = "fields"
              /\ err' = err
         ELSE /\ pc' = "raised"
              /\ err' = "OSError"
              /\ UNCHANGED <<file_opened, attrs>>
    /\ UNCHANGED <<fn, metric_vars, loop_vars, self_split>>

\* self.target_labels, self.inputs, self.outputs, self.ids
DatasetFields ==
    /\ fn = "BassetDataset" /\ pc = "fields"
    /\ attrs' = attrs \cup {"target_labels", "inputs", "outputs", "ids"}
    /\ pc' = "id_vars"
    /\ UNCHANGED <<fn, err, metric_vars, loop_vars, self_split, file_opened>>

\* if self.split == 'test': self.id_vars = np.char.decode(...)
DatasetIdVars ==
    /\ fn = "BassetDataset" /\ pc = "id_vars"
    /\ attrs' = IF self_split = "test" THEN attrs \cup {"id_vars"} ELSE attrs
    /\ pc' = "returned"
    /\ UNCHANGED <<fn, err, metric_vars, loop_vars, self_split, file_opened>>

\* the caller takes the result (or the exception); the next call starts afresh
Return ==
    /\ pc \in {"returned", "raised"}
    /\ pc' = "idle"
    /\ fn' = "none"
    /\ y_true' = <<>>
    /\ y_model' = <<>>
    /\ result' = [none |-> TRUE]
    /\ err' = "none"
    /\ training' = TRUE
    /\ grad' = {}
    /\ grad_at_call' = {}
    /\ opt_log' = <<>>
    /\ trace' = <<>>
    /\ batch' = NoBatch
    /\ pred' = <<>>
    /\ loss' = 0
    /\ total_score' = Zero
    /\ total_loss' = 0
    /\ counter' = 0
    /\ batch_counter' = 0
    /\ hist' = <<>>
    /\ ret' = <<>>
    /\ self_split' = "unset"
    /\ attrs' = {}
    /\ file_opened' = FALSE

Next ==
    \/ CallComputeFprTpr
    \/ CallComputeAuc
    \/ CallDumbModel
    \/ CallSmartModel
    \/ TrainCall \/ TrainFetch \/ TrainZeroGrad \/ TrainForward \/ TrainLoss
    \/ TrainBackward \/ TrainStep \/ TrainAccumulate \/ TrainExit
    \/ ValidCall \/ ValidFetch \/ ValidForward \/ ValidLoss
    \/ ValidAccumulate \/ ValidExit
    \/ DatasetCall \/ DatasetAssert \/ DatasetOpen \/ DatasetFields
    \/ DatasetIdVars
    \/ Return

Spec == Init /\ [][Next]_vars

(***************************************************************************)
(* Vocabulary of the properties: the confusion counts of the call's two    *)
(* arrays, stated as sets of positions.                                    *)
(***************************************************************************)
Positions == 1..Len(y_true)
Returned(f) == fn = f /\ pc = "returned"
InLoop == fn \in {"train_loop", "valid_loop"}

\* a fraction x equals num / den (den > 0)
Equals(x, num, den) == x.d > 0 /\ x.n * den = num * x.d
One == [n |-> 1, d |-> 1]

P == Cardinality({i \in Positions : y_true[i] = 1})
N == Cardinality({i \in Positions : y_true[i] = 0})

\* compute_fpr_tpr: y_model holds y_pred
TP == Cardinality({i \in Positions : y_model[i] = 1 /\ y_true[i] = 1})
FP == Cardinality({i \in Positions : y_model[i] = 1 /\ y_true[i] = 0})
TN == Cardinality({i \in Positions : y_model[i] = 0 /\ y_true[i] = 0})
FN == Cardinality({i \in Positions : y_model[i] = 0 /\ y_true[i] = 1})

\* the sweeps: y_model holds scores; the counts at threshold k (in ticks)
TPat(k) == Cardinality({i \in Positions : y_model[i] > k /\ y_true[i] = 1})
FPat(k) == Cardinality({i \in Positions : y_model[i] > k /\ y_true[i] = 0})

\* every positive scored 1.0, every negative scored 0.0
Separated(yt) == [i \in 1..Len(yt) |-> IF yt[i] = 1 THEN Unit ELSE 0]

----------------------------------------------------------------------------
(* C1: for equal-length arrays over {0,1}, compute_fpr_tpr returns         *)
(* tpr = TP/(TP+FN), or 0 when there are no positives, and                 *)
(* fpr = FP/(FP+TN), or 0 when there are no negatives; no call raises, an  *)
(* all-zero or all-one y_true included.                                    *)
C1_FprTprContract ==
    fn = "compute_fpr_tpr" =>
        /\ pc = "returned" /\ err = "none"
        /\ IF TP + FN > 0 THEN Equals(result.tpr, TP, TP + FN)
                          ELSE result.tpr = Zero
        /\ IF FP + TN > 0 THEN Equals(result.fpr, FP, FP + TN)
                          ELSE result.fpr = Zero

\* an all-zero y_true with a false positive: tpr is the guarded 0, fpr is not
C1_Witness ==
    /\ Returned("compute_fpr_tpr")
    /\ Len(y_true) >= 2
    /\ \A i \in Positions : y_true[i] = 0
    /\ result.tpr = Zero
    /\ result.fpr.n > 0

----------------------------------------------------------------------------
----------------------------------------------------------------------------
\* the call compute_fpr_tpr(y_true, (scores > k_list[0]).astype(int)) with
\* perfectly separated scores
SeparatedAtZero ==
    /\ Returned("compute_fpr_tpr")
    /\ y_model = threshold(Separated(y_true), k_list[1])

(* C3 as stated: for every label vector, perfectly separated scores        *)
(* thresholded at k = 0 with score > k give TPR = 1 and FPR = 0.           *)
C3_AsStated ==
    SeparatedAtZero => result.tpr = One /\ result.fpr = Zero

(* C3, amended: perfectly separated scores thresholded at k = 0 give       *)
(* FPR = 0, and TPR = 1 when the label vector holds at least one positive; *)
(* with no positive (an all-zero or empty vector) TPR is the guarded 0.    *)
C3_SeparatedAtZero ==
    SeparatedAtZero =>
        /\ result.fpr = Zero
        /\ result.tpr = IF P > 0 THEN One ELSE Zero

C3_Witness ==
    /\ SeparatedAtZero
    /\ P > 0 /\ N > 0
    /\ result.tpr = One /\ result.fpr = Zero

----------------------------------------------------------------------------
RECURSIVE SumAuc(_)
SumAuc(i) == IF i = 0 THEN Zero ELSE FAdd(SumAuc(i - 1), hist[i].auc)

RECURSIVE SumLoss(_)
SumLoss(i) == IF i = 0 THEN 0 ELSE SumLoss(i - 1) + hist[i].loss * hist[i].n

(* C4: a pass of train_loop or valid_loop over B >= 1 batches returns      *)
(* (sum of the B per-batch AUC values) / B first, and second the sum over  *)
(* the batches of loss value x batch size, divided by nothing.             *)
C4_LoopReturn ==
    (InLoop /\ pc = "returned") =>
        /\ Len(hist) >= 1
        /\ Len(ret) = 2
        /\ FMul(ret[1], FromInt(Len(hist))) = SumAuc(Len(hist))
        /\ ret[2] = SumLoss(Len(hist))

\* two batches of different size and different AUC
C4_Witness ==
    /\ InLoop /\ pc = "returned"
    /\ Len(hist) = 2
    /\ hist[1].n # hist[2].n
    /\ hist[1].auc # hist[2].auc
    /\ hist[1].loss # hist[2].loss

----------------------------------------------------------------------------
----------------------------------------------------------------------------
(* C6: for a loader of any number of batches, 0 included, each loop ends   *)
(* by returning its pair: it never raises.                                 *)
C6_NeverRaises ==
    InLoop => pc # "raised" /\ err = "none"

----------------------------------------------------------------------------
\* twice N x P times the trapezoidal sum over the points 0 .. i, in integers
RECURSIVE TrapezoidSum(_)
TrapezoidSum(i) ==
    IF i = 0 THEN 0
    ELSE TrapezoidSum(i - 1)
         + (FPat(5 * i) - FPat(5 * (i - 1))) * (TPat(5 * (i - 1)) + TPat(5 * i))

(* C7: the sweeps evaluate exactly 20 thresholds k_i = 0.05 * i,           *)
(* i = 0 .. 19, in increasing order (list index i holds threshold k_i); a  *)
(* sample is predicted positive iff score > k_i; and compute_auc returns   *)
(* |sum_{i=0..18} (fpr[i+1] - fpr[i]) * (tpr[i] + tpr[i+1]) / 2| over      *)
(* those 20 points only.                                                   *)
C7_ThresholdSweep ==
    /\ Len(k_list) = 20
    /\ \A i \in 0..19 : k_list[i + 1] * 20 = i * Unit
    /\ (pc = "returned" /\ fn \in {"compute_fpr_tpr_dumb_model",
                                   "compute_fpr_tpr_smart_model"}) =>
          /\ Len(result.fpr_list) = 20 /\ Len(result.tpr_list) = 20
          /\ \A i \in 0..19 :
               /\ IF N > 0 THEN Equals(result.fpr_list[i + 1], FPat(5 * i), N)
                           ELSE result.fpr_list[i + 1] = Zero
               /\ IF P > 0 THEN Equals(result.tpr_list[i + 1], TPat(5 * i), P)
                           ELSE result.tpr_list[i + 1] = Zero
    /\ Returned("compute_auc") =>
          IF N > 0 /\ P > 0
          THEN Equals(result.auc, Abs(TrapezoidSum(19)), 2 * N * P)
          ELSE result.auc = Zero

\* a score that sits exactly on the threshold 0.05 and decides the area
C7_Witness ==
    /\ Returned("compute_auc")
    /\ \E i \in Positions : y_model[i] = 5 /\ y_true[i] = 0
    /\ \E i \in Positions : y_model[i] = Unit /\ y_true[i] = 1
    /\ result.auc.n > 0

----------------------------------------------------------------------------
Recognised == {"train", "valid", "test"}

(* C8: constructing BassetDataset with a split other than 'train',         *)
(* 'valid' or 'test' fails before the file is opened and before any        *)
(* attribute other than split is set; with a recognised split the          *)
(* construction goes on to open the file, and only the 'test' split gets   *)
(* id_vars.                                                                *)
C8_SplitValidation ==
    fn = "BassetDataset" =>
        /\ self_split \notin Recognised =>
              /\ pc \in {"assert", "raised"}
              /\ pc = "raised" => err = "AssertionError"
              /\ ~file_opened
              /\ attrs = {"split"}
        /\ self_split \in Recognised =>
              /\ err # "AssertionError"
              /\ pc = "raised" => err = "OSError"
              /\ pc \in {"fields", "id_vars", "returned"} => file_opened
        /\ "id_vars" \in attrs => self_split = "test"
        /\ (pc = "returned" /\ self_split = "test") => "id_vars" \in attrs

\* an unrecognised split was rejected
C8_Witness ==
    /\ fn = "BassetDataset"
    /\ pc = "raised"
    /\ self_split \notin Recognised
    /\ err = "AssertionError"

----------------------------------------------------------------------------
(* C9: in train_loop every batch runs zero_grad, forward, loss, backward,  *)
(* optimizer step and only then the accumulation, so after B batches the   *)
(* optimizer has stepped exactly B times, step i on the gradients of batch *)
(* i alone; valid_loop never touches the optimizer (no zero_grad, no       *)
(* backward, no step) and has the model in evaluation mode.                *)
C9_StepOrder ==
    /\ fn = "train_loop" =>
          /\ (pc \in {"for", "returned"} /\ batch_counter > 0) =>
                trace = <<"zero_grad", "forward", "loss", "backward", "step",
                          "accumulate">>
          /\ pc \in {"for", "returned"} => Len(opt_log) = batch_counter
          /\ \A i \in 1..Len(opt_log) : opt_log[i] = {i}
    /\ fn = "valid_loop" =>
          /\ ~training
          /\ opt_log = <<>>
          /\ grad = grad_at_call
          /\ \A i \in 1..Len(trace) :
                trace[i] \notin {"zero_grad", "backward", "step"}
          /\ (pc \in {"for", "returned"} /\ batch_counter > 0) =>
                trace = <<"forward", "loss", "accumulate">>

\* two training batches after a caller left stale gradients behind
C9_Witness ==
    /\ fn = "train_loop" /\ pc = "returned"
    /\ grad_at_call = {0}
    /\ batch_counter = 2
    /\ Len(opt_log) = 2

----------------------------------------------------------------------------
\* all 20 thresholds give the same (FPR, TPR) point
SamePoint ==
    \A i \in 1..19 :
        /\ N > 0 => FPat(5 * i) = FPat(0)
        /\ P > 0 => TPat(5 * i) = TPat(0)

(* C10: compute_auc adds no (0,0) or (1,1) end point: whenever the 20      *)
(* thresholds all give the same (FPR, TPR) point the AUC is exactly 0;     *)
(* that covers the perfect classifier (positives scored 1, negatives 0:    *)
(* TPR = 1 and FPR = 0 at every threshold) and the empty input.            *)
C10_NoEndPoints ==
    Returned("compute_auc") =>
        /\ SamePoint => result.auc = Zero
        /\ y_model = Separated(y_true) =>
              /\ result.auc = Zero
              /\ \A i \in 0..19 : FPat(5 * i) = 0 /\ TPat(5 * i) = P
        /\ y_true = <<>> => result.auc = Zero

\* a perfect classifier over both classes scores 0
C10_Witness ==
    /\ Returned("compute_auc")
    /\ P > 0 /\ N > 0
    /\ y_model = Separated(y_true)
    /\ result.auc = Zero

=============================================================================
